---- MODULE Spec2Model ----
(***************************************************************************)
(* Model of the two Trivy report summarisers of the repository:            *)
(*   parse_results.py  - prints a severity table for one report file       *)
(*   create_graphs.py  - renders three charts from two report files        *)
(* A decoded JSON value is a tagged record; the two aggregation loops are  *)
(* folds over the decoded value that follow the Python statements one by   *)
(* one, including the exceptions the Python operators raise.               *)
(***************************************************************************)
EXTENDS Integers, Sequences, FiniteSets

VARIABLES prog, argv, fs, pc, data, severity_counts, total_vulnerabilities,
          baseline_vulnerability_data, hardened_vulnerability_data,
          exc, row, stdout, charts, traceback, exitcode

vars == <<prog, argv, fs, pc, data, severity_counts, total_vulnerabilities,
          baseline_vulnerability_data, hardened_vulnerability_data,
          exc, row, stdout, charts, traceback, exitcode>>

(***************************************************************************)
(* Bound of the explored inputs: the size of a report is the number of its *)
(* leaves, that is of its Findings and of the sections and documents that  *)
(* hold no item.                                                           *)
(***************************************************************************)
MaxLeaves == 2

(***************************************************************************)
(* Decoded JSON values (the result of json.load).                          *)
(***************************************************************************)
JNull == [t |-> "null"]
JNum(n) == [t |-> "num", n |-> n]
JStr(s) == [t |-> "str", s |-> s]
JList(l) == [t |-> "list", l |-> l]
JObj(kv) == [t |-> "obj", kv |-> kv]

\* File content that json.load rejects.
InvalidText == [t |-> "invalid"]

(***************************************************************************)
(* The explored reports: every decoded value built from the shapes below,  *)
(* as a single document or as a sequence of documents, with at most        *)
(* MaxLeaves leaves.                                                       *)
(***************************************************************************)
SeverityValues ==
    {JStr("HIGH"), JStr("high"), JStr("UNKNOWN"), JNull, JList(<<>>)}

Finding(sev) == JObj(<< <<"Severity", sev>> >>)
Section(vulns) == JObj(<< <<"Vulnerabilities", vulns>> >>)
Doc(results) == JObj(<< <<"Results", results>> >>)

Findings == {JObj(<<>>), JStr("x")} \cup {Finding(s) : s \in SeverityValues}

\* sections that hold no list of findings, or an empty one
LeafSections ==
    {JObj(<<>>), Section(JNull), Section(JList(<<>>)), Section(JNum(0)),
     Section(JStr("ab")), JNull, JStr("x")}

\* documents that hold no list of sections, or an empty one
LeafDocs ==
    {JObj(<<>>), Doc(JNull), Doc(JList(<<>>)), Doc(JStr("x")), JNull,
     JStr("Results")}

\* the sections with k leaves, k >= 1
SectionsOfSize(k) ==
    {Section(JList(l)) : l \in [1..k -> Findings]}
        \cup (IF k = 1 THEN LeafSections ELSE {})

\* the lists of sections with k leaves in all, whose first section has at
\* least i leaves
RECURSIVE SectionListsFrom(_, _)
SectionListsFrom(k, i) ==
    IF k = 0 THEN {<<>>}
    ELSE IF i > k THEN {}
    ELSE {<<sec>> \o rest : sec \in SectionsOfSize(i),
                            rest \in SectionListsFrom(k - i, 1)}
            \cup SectionListsFrom(k, i + 1)

\* the documents with k leaves, k >= 1
DocsOfSize(k) ==
    {Doc(JList(sl)) : sl \in SectionListsFrom(k, 1)}
        \cup (IF k = 1 THEN LeafDocs ELSE {})

\* the lists of documents with k leaves in all, whose first document has at
\* least i leaves
RECURSIVE DocListsFrom(_, _)
DocListsFrom(k, i) ==
    IF k = 0 THEN {<<>>}
    ELSE IF i > k THEN {}
    ELSE {<<doc>> \o rest : doc \in DocsOfSize(i),
                            rest \in DocListsFrom(k - i, 1)}
            \cup DocListsFrom(k, i + 1)

\* the reports with at most k leaves
RECURSIVE ReportsUpTo(_)
ReportsUpTo(k) ==
    {JList(dl) : dl \in DocListsFrom(k, 1)}
        \cup (IF k = 0 THEN {} ELSE DocsOfSize(k) \cup ReportsUpTo(k - 1))

Reports == ReportsUpTo(MaxLeaves)

(***************************************************************************)
(* Python operators used by the traversal.                                 *)
(***************************************************************************)
IsSubstring(a, b) ==
    \E i \in 1..(Len(b) - Len(a) + 1) : SubSeq(b, i, i + Len(a) - 1) = a

Keys(o) == {o.kv[i][1] : i \in DOMAIN o.kv}

\* key in c : raises TypeError unless c is a dict, a list or a str
ContainsRaises(c) == c.t \notin {"obj", "list", "str"}

Contains(key, c) ==
    CASE c.t = "obj" -> key \in Keys(c)
      [] c.t = "list" -> \E i \in DOMAIN c.l : c.l[i] = JStr(key)
      [] c.t = "str" -> IsSubstring(key, c.s)
      [] OTHER -> FALSE

\* c[key] with a str key : a list or a str raises TypeError
SubscriptRaises(c) == c.t # "obj"

Subscript(c, key) == c.kv[CHOOSE i \in DOMAIN c.kv : c.kv[i][1] = key][2]

\* d.get(key, default)
DictGet(d, key, default) ==
    IF key \in Keys(d) THEN Subscript(d, key) ELSE default

\* len(v) : raises TypeError on None, numbers and booleans
LenRaises(v) == v.t \notin {"obj", "list", "str"}

PyLen(v) ==
    CASE v.t = "list" -> Len(v.l)
      [] v.t = "obj" -> Len(v.kv)
      [] v.t = "str" -> Len(v.s)
      [] OTHER -> 0

\* for x in v : a list yields its items, a dict its keys, a str its characters
Iterate(v) ==
    CASE v.t = "list" -> v.l
      [] v.t = "obj" -> [i \in DOMAIN v.kv |-> JStr(v.kv[i][1])]
      [] v.t = "str" -> [i \in 1..Len(v.s) |-> JStr(SubSeq(v.s, i, i))]
      [] OTHER -> <<>>

\* for x in v : raises TypeError on None, numbers and booleans
IterRaises(v) == v.t \notin {"obj", "list", "str"}

\* a Counter key must be hashable : lists and dicts are not
Hashable(v) == v.t \notin {"list", "obj"}

\* Counter() and counter[key] += 1
EmptyCounter == [k \in {} |-> 0]

CounterGet(counts, key) == IF key \in DOMAIN counts THEN counts[key] ELSE 0

Incr(counts, key) ==
    [k \in (DOMAIN counts) \cup {key} |->
        IF k = key THEN CounterGet(counts, k) + 1 ELSE counts[k]]

RECURSIVE SumOver(_, _)
SumOver(counts, keys) ==
    IF keys = {} THEN 0
    ELSE LET k == CHOOSE x \in keys : TRUE
         IN counts[k] + SumOver(counts, keys \ {k})

\* sum(counts.values())
SumValues(counts) == SumOver(counts, DOMAIN counts)

(***************************************************************************)
(* parse_results.py : the aggregation loop, lines 28-44.                   *)
(* The accumulator carries the two module-level variables and the pending  *)
(* exception, if any; a raised exception ends every enclosing loop.        *)
(***************************************************************************)
Raise(acc, e) == [acc EXCEPT !.exc = e]

\* variant : a label outside the table is folded into UNKNOWN
PR_VulnStep_FoldsUnknown(acc, vuln) ==
    IF vuln.t # "obj" THEN Raise(acc, "AttributeError")
    ELSE LET found == DictGet(vuln, "Severity", JStr("UNKNOWN"))
             severity == IF found \in {JStr("CRITICAL"), JStr("HIGH"),
                                       JStr("MEDIUM"), JStr("LOW")}
                         THEN found ELSE JStr("UNKNOWN")
         IN [acc EXCEPT !.severity_counts = Incr(@, severity)]

PR_VulnStep(acc, vuln) ==
    IF vuln.t # "obj" THEN Raise(acc, "AttributeError")
    ELSE LET severity == DictGet(vuln, "Severity", JStr("UNKNOWN"))
         IN IF ~Hashable(severity) THEN Raise(acc, "TypeError")
            ELSE [acc EXCEPT !.severity_counts = Incr(@, severity)]

RECURSIVE PR_VulnLoop(_, _)
PR_VulnLoop(acc, vulns) ==
    IF acc.exc # "none" \/ vulns = <<>> THEN acc
    ELSE PR_VulnLoop(PR_VulnStep(acc, Head(vulns)), Tail(vulns))

\* variant : the total counts one per section instead of len(...)
PR_ResultStep_CountsSections(acc, result) ==
    IF ContainsRaises(result) THEN Raise(acc, "TypeError")
    ELSE IF ~Contains("Vulnerabilities", result) THEN acc
    ELSE IF SubscriptRaises(result) THEN Raise(acc, "TypeError")
    ELSE LET vulns == Subscript(result, "Vulnerabilities")
         IN IF vulns = JNull THEN acc
            ELSE IF LenRaises(vulns) THEN Raise(acc, "TypeError")
            ELSE PR_VulnLoop([acc EXCEPT !.total_vulnerabilities = @ + 1],
                             Iterate(vulns))

\* variant : the test "is not None" is left out
PR_ResultStep_NoNullCheck(acc, result) ==
    IF ContainsRaises(result) THEN Raise(acc, "TypeError")
    ELSE IF ~Contains("Vulnerabilities", result) THEN acc
    ELSE IF SubscriptRaises(result) THEN Raise(acc, "TypeError")
    ELSE LET vulns == Subscript(result, "Vulnerabilities")
         IN IF LenRaises(vulns) THEN Raise(acc, "TypeError")
            ELSE PR_VulnLoop(
                   [acc EXCEPT !.total_vulnerabilities = @ + PyLen(vulns)],
                   Iterate(vulns))

PR_ResultStep(acc, result) ==
    IF ContainsRaises(result) THEN Raise(acc, "TypeError")
    ELSE IF ~Contains("Vulnerabilities", result) THEN acc
    ELSE IF SubscriptRaises(result) THEN Raise(acc, "TypeError")
    ELSE LET vulns == Subscript(result, "Vulnerabilities")
         IN IF vulns = JNull THEN acc
            ELSE IF LenRaises(vulns) THEN Raise(acc, "TypeError")
            ELSE PR_VulnLoop(
                   [acc EXCEPT !.total_vulnerabilities = @ + PyLen(vulns)],
                   Iterate(vulns))

RECURSIVE PR_ResultLoop(_, _)
PR_ResultLoop(acc, results) ==
    IF acc.exc # "none" \/ results = <<>> THEN acc
    ELSE PR_ResultLoop(PR_ResultStep(acc, Head(results)), Tail(results))

\* variant : report['Results'] is read without the test "in"
PR_ReportStep_NoInCheck(acc, report) ==
    IF SubscriptRaises(report) THEN Raise(acc, "TypeError")
    ELSE IF "Results" \notin Keys(report) THEN Raise(acc, "KeyError")
    ELSE LET results == Subscript(report, "Results")
         IN IF results.t # "list" THEN acc
            ELSE PR_ResultLoop(acc, results.l)

PR_ReportStep(acc, report) ==
    IF ContainsRaises(report) THEN Raise(acc, "TypeError")
    ELSE IF ~Contains("Results", report) THEN acc
    ELSE IF SubscriptRaises(report) THEN Raise(acc, "TypeError")
    ELSE LET results == Subscript(report, "Results")
         IN IF results.t # "list" THEN acc
            ELSE PR_ResultLoop(acc, results.l)

RECURSIVE PR_ReportLoop(_, _)
PR_ReportLoop(acc, reports) ==
    IF acc.exc # "none" \/ reports = <<>> THEN acc
    ELSE PR_ReportLoop(PR_ReportStep(acc, Head(reports)), Tail(reports))

\* variant : the report is always taken as one document
ReportData_SingleOnly(d) == <<d>>

\* report_data = data if isinstance(data, list) else [data]
ReportData(d) == IF d.t = "list" THEN d.l ELSE <<d>>

Aggregate(d) ==
    PR_ReportLoop([severity_counts |-> EmptyCounter,
                   total_vulnerabilities |-> 0,
                   exc |-> "none"],
                  ReportData(d))

(***************************************************************************)
(* create_graphs.py : the body of parse_trivy_json, lines 19-30.           *)
(***************************************************************************)
PT_VulnStep(acc, vuln) ==
    IF vuln.t # "obj" THEN Raise(acc, "AttributeError")
    ELSE LET severity == DictGet(vuln, "Severity", JStr("UNKNOWN"))
         IN IF ~Hashable(severity) THEN Raise(acc, "TypeError")
            ELSE [acc EXCEPT !.severity_counts = Incr(@, severity)]

RECURSIVE PT_VulnLoop(_, _)
PT_VulnLoop(acc, vulns) ==
    IF acc.exc # "none" \/ vulns = <<>> THEN acc
    ELSE PT_VulnLoop(PT_VulnStep(acc, Head(vulns)), Tail(vulns))

PT_ResultStep(acc, result) ==
    IF ContainsRaises(result) THEN Raise(acc, "TypeError")
    ELSE IF ~Contains("Vulnerabilities", result) THEN acc
    ELSE IF SubscriptRaises(result) THEN Raise(acc, "TypeError")
    ELSE LET vulns == Subscript(result, "Vulnerabilities")
         IN IF vulns = JNull THEN acc
            ELSE IF IterRaises(vulns) THEN Raise(acc, "TypeError")
            ELSE PT_VulnLoop(acc, Iterate(vulns))

RECURSIVE PT_ResultLoop(_, _)
PT_ResultLoop(acc, results) ==
    IF acc.exc # "none" \/ results = <<>> THEN acc
    ELSE PT_ResultLoop(PT_ResultStep(acc, Head(results)), Tail(results))

TrivyCounts(d) ==
    LET acc0 == [severity_counts |-> EmptyCounter, exc |-> "none"]
    IN IF ContainsRaises(d) THEN Raise(acc0, "TypeError")
       ELSE IF ~Contains("Results", d) THEN acc0
       ELSE IF SubscriptRaises(d) THEN Raise(acc0, "TypeError")
       ELSE LET results == Subscript(d, "Results")
            IN IF results.t # "list" THEN acc0
               ELSE PT_ResultLoop(acc0, results.l)

(***************************************************************************)
(* The file system and the command lines the model starts from.            *)
(***************************************************************************)
BASELINE_IMAGE_SIZE_MB == 1970
HARDENED_IMAGE_SIZE_MB == 555
BASELINE_JSON_FILE == "trivy-scan-results.json"
HARDENED_JSON_FILE == "trivy-scan-results-hardened.json"

\* what a report file may hold
Contents == Reports \cup {InvalidText}

\* a report with two findings, and a few contents of each kind: text that
\* is not JSON, a value the traversal raises on, an empty sequence, a report
SampleReport ==
    Doc(JList(<<Section(JList(<<Finding(JStr("HIGH")), JObj(<<>>)>>))>>))

SampleContents == {InvalidText, JNull, JList(<<>>), SampleReport}

\* a file system maps each existing file name to its content
NoFile == [t |-> "missing"]

FileSystem(baseline, hardened) ==
    LET content == [n \in {BASELINE_JSON_FILE, HARDENED_JSON_FILE} |->
                       IF n = BASELINE_JSON_FILE THEN baseline ELSE hardened]
    IN [n \in {m \in DOMAIN content : content[m] # NoFile} |-> content[n]]

ParseResultsFileSystems ==
    {FileSystem(b, NoFile) : b \in Contents \cup {NoFile}}

\* create_graphs.py reads two files: every content for the first one beside
\* a second one that parses, and the samples for both
CreateGraphsFileSystems ==
    {FileSystem(b, SampleReport) : b \in Contents \cup {NoFile}}
        \cup {FileSystem(b, h) : b \in SampleContents \cup {NoFile},
                                 h \in SampleContents \cup {NoFile}}

Init ==
    /\ \/ /\ prog = "parse_results"
          /\ argv = <<"parse_results.py", BASELINE_JSON_FILE>>
          /\ fs \in ParseResultsFileSystems
       \/ /\ prog = "parse_results"
          /\ argv = <<"parse_results.py">>
          /\ fs \in {FileSystem(b, NoFile) : b \in SampleContents}
       \/ /\ prog = "create_graphs"
          /\ argv = <<"create_graphs.py">>
          /\ fs \in CreateGraphsFileSystems
    /\ pc = "start"
    /\ data = JNull
    /\ severity_counts = EmptyCounter
    /\ total_vulnerabilities = 0
    /\ baseline_vulnerability_data = EmptyCounter
    /\ hardened_vulnerability_data = EmptyCounter
    /\ exc = "none"
    /\ row = 0
    /\ stdout = <<>>
    /\ charts = {}
    /\ traceback = FALSE
    /\ exitcode = 0

Line(kind) == [line |-> kind]
Emit(out, kind) == Append(out, Line(kind))

(***************************************************************************)
(* parse_results.py                                                        *)
(***************************************************************************)
\* the order of the table rows, line 50
TableOrder == <<"CRITICAL", "HIGH", "MEDIUM", "LOW", "UNKNOWN">>

\* lines 11-17
PR_CheckArgs ==
    /\ prog = "parse_results" /\ pc = "start"
    /\ IF Len(argv) < 2
       THEN /\ stdout' = Emit(Emit(stdout, "missing_argument"), "usage")
            /\ exitcode' = 1
            /\ pc' = "exit"
       ELSE /\ pc' = "load"
            /\ UNCHANGED <<stdout, exitcode>>
    /\ UNCHANGED <<prog, argv, fs, data, severity_counts, total_vulnerabilities,
                   baseline_vulnerability_data, hardened_vulnerability_data,
                   exc, row, charts, traceback>>

\* lines 25-26
PR_Load ==
    /\ prog = "parse_results" /\ pc = "load"
    /\ LET filename == argv[2]
       IN IF filename \notin DOMAIN fs
          THEN exc' = "FileNotFoundError" /\ pc' = "except" /\ UNCHANGED data
          ELSE IF fs[filename] = InvalidText
          THEN exc' = "JSONDecodeError" /\ pc' = "except" /\ UNCHANGED data
          ELSE data' = fs[filename] /\ pc' = "aggregate" /\ UNCHANGED exc
    /\ UNCHANGED <<prog, argv, fs, severity_counts, total_vulnerabilities,
                   baseline_vulnerability_data, hardened_vulnerability_data,
                   row, stdout, charts, traceback, exitcode>>

\* lines 28-44
PR_Aggregate ==
    /\ prog = "parse_results" /\ pc = "aggregate"
    /\ LET r == Aggregate(data)
       IN /\ severity_counts' = r.severity_counts
          /\ total_vulnerabilities' = r.total_vulnerabilities
          /\ exc' = r.exc
          /\ pc' = IF r.exc = "none" THEN "header" ELSE "except"
    /\ UNCHANGED <<prog, argv, fs, data,
                   baseline_vulnerability_data, hardened_vulnerability_data,
                   row, stdout, charts, traceback, exitcode>>

\* line 47
PR_PrintHeader ==
    /\ prog = "parse_results" /\ pc = "header"
    /\ stdout' = Emit(stdout, "header")
    /\ row' = 1
    /\ pc' = "rows"
    /\ UNCHANGED <<prog, argv, fs, data, severity_counts, total_vulnerabilities,
                   baseline_vulnerability_data, hardened_vulnerability_data,
                   exc, charts, traceback, exitcode>>

\* lines 50-52, one iteration
PR_PrintRow ==
    /\ prog = "parse_results" /\ pc = "rows" /\ row <= Len(TableOrder)
    /\ LET severity == TableOrder[row]
           count == CounterGet(severity_counts, JStr(severity))
       IN stdout' = Append(stdout, [line |-> "row", severity |-> severity,
                                    count |-> count])
    /\ row' = row + 1
    /\ UNCHANGED <<prog, argv, fs, pc, data, severity_counts,
                   total_vulnerabilities,
                   baseline_vulnerability_data, hardened_vulnerability_data,
                   exc, charts, traceback, exitcode>>

\* lines 54-56, then the script ends
PR_PrintTotal ==
    /\ prog = "parse_results" /\ pc = "rows" /\ row > Len(TableOrder)
    /\ stdout' = Append(Append(Emit(stdout, "separator"),
                               [line |-> "total",
                                count |-> total_vulnerabilities]),
                        Line("end"))
    /\ pc' = "exit"
    /\ UNCHANGED <<prog, argv, fs, data, severity_counts, total_vulnerabilities,
                   baseline_vulnerability_data, hardened_vulnerability_data,
                   exc, row, charts, traceback, exitcode>>

\* lines 58-63 : each handler prints and the script runs off its end
PR_Except ==
    /\ prog = "parse_results" /\ pc = "except"
    /\ stdout' = Emit(stdout,
                       CASE exc = "FileNotFoundError" -> "file_not_found"
                         [] exc = "JSONDecodeError" -> "decode_error"
                         [] OTHER -> "unexpected_error")
    /\ pc' = "exit"
    /\ UNCHANGED <<prog, argv, fs, data, severity_counts, total_vulnerabilities,
                   baseline_vulnerability_data, hardened_vulnerability_data,
                   exc, row, charts, traceback, exitcode>>

(***************************************************************************)
(* create_graphs.py                                                        *)
(***************************************************************************)
\* parse_trivy_json, lines 17-36 : it returns the counts, or prints a message
\* and calls sys.exit(1), or lets the exception of the traversal through
ParseTrivyJson(files, filename) ==
    IF filename \notin DOMAIN files
    THEN [kind |-> "exit", msg |-> "file_not_found", exc |-> "none",
          counts |-> EmptyCounter]
    ELSE IF files[filename] = InvalidText
    THEN [kind |-> "exit", msg |-> "decode_error", exc |-> "none",
          counts |-> EmptyCounter]
    ELSE LET r == TrivyCounts(files[filename])
         IN IF r.exc = "none"
            THEN [kind |-> "return", msg |-> "none", exc |-> "none",
                  counts |-> r.severity_counts]
            ELSE [kind |-> "raise", msg |-> "none", exc |-> r.exc,
                  counts |-> EmptyCounter]

\* the outcome of one call from __main__ : where control goes next
AfterParse(r, next) ==
    /\ pc' = IF r.kind = "return" THEN next ELSE "exit"
    /\ stdout' = IF r.kind = "exit" THEN Emit(stdout, r.msg) ELSE stdout
    /\ exitcode' = IF r.kind = "return" THEN exitcode ELSE 1
    /\ traceback' = (r.kind = "raise")
    /\ exc' = r.exc

\* line 115
CG_Main ==
    /\ prog = "create_graphs" /\ pc = "start"
    /\ stdout' = Emit(stdout, "parsing")
    /\ pc' = "parse_baseline"
    /\ UNCHANGED <<prog, argv, fs, data, severity_counts, total_vulnerabilities,
                   baseline_vulnerability_data, hardened_vulnerability_data,
                   exc, row, charts, traceback, exitcode>>

\* variant : the charts are drawn before the second report is parsed
CG_ParseBaseline_ChartsFirst ==
    /\ prog = "create_graphs" /\ pc = "parse_baseline"
    /\ LET r == ParseTrivyJson(fs, BASELINE_JSON_FILE)
       IN /\ AfterParse(r, "image_size_chart")
          /\ baseline_vulnerability_data' = r.counts
    /\ UNCHANGED <<prog, argv, fs, data, severity_counts, total_vulnerabilities,
                   hardened_vulnerability_data, row, charts>>

\* line 116
CG_ParseBaseline ==
    /\ prog = "create_graphs" /\ pc = "parse_baseline"
    /\ LET r == ParseTrivyJson(fs, BASELINE_JSON_FILE)
       IN /\ AfterParse(r, "parse_hardened")
          /\ baseline_vulnerability_data' = r.counts
    /\ UNCHANGED <<prog, argv, fs, data, severity_counts, total_vulnerabilities,
                   hardened_vulnerability_data, row, charts>>

\* line 117
CG_ParseHardened ==
    /\ prog = "create_graphs" /\ pc = "parse_hardened"
    /\ LET r == ParseTrivyJson(fs, HARDENED_JSON_FILE)
       IN /\ AfterParse(r, "image_size_chart")
          /\ hardened_vulnerability_data' = r.counts
    /\ UNCHANGED <<prog, argv, fs, data, severity_counts, total_vulnerabilities,
                   baseline_vulnerability_data, row, charts>>

\* a saved chart : its file name and the bar heights of the two series
Chart(file, baseline, hardened) ==
    [file |-> file, baseline |-> baseline, hardened |-> hardened]

\* lines 119-120 and create_image_size_chart, lines 39-58
CG_ImageSizeChart ==
    /\ prog = "create_graphs" /\ pc = "image_size_chart"
    /\ charts' = charts \cup {Chart("image_size_comparison.png",
                                    <<BASELINE_IMAGE_SIZE_MB>>,
                                    <<HARDENED_IMAGE_SIZE_MB>>)}
    /\ stdout' = Emit(Emit(stdout, "generating"), "saved")
    /\ pc' = "total_chart"
    /\ UNCHANGED <<prog, argv, fs, data, severity_counts, total_vulnerabilities,
                   baseline_vulnerability_data, hardened_vulnerability_data,
                   exc, row, traceback, exitcode>>

\* create_vulnerability_charts, lines 63-84
CG_TotalChart ==
    /\ prog = "create_graphs" /\ pc = "total_chart"
    /\ charts' = charts \cup {Chart("total_vulnerabilities_comparison.png",
                                    <<SumValues(baseline_vulnerability_data)>>,
                                    <<SumValues(hardened_vulnerability_data)>>)}
    /\ stdout' = Emit(stdout, "saved")
    /\ pc' = "severity_chart"
    /\ UNCHANGED <<prog, argv, fs, data, severity_counts, total_vulnerabilities,
                   baseline_vulnerability_data, hardened_vulnerability_data,
                   exc, row, traceback, exitcode>>

\* the order of the bar groups, line 87
ChartOrder == <<"CRITICAL", "HIGH", "MEDIUM", "LOW">>

\* create_vulnerability_charts, lines 86-111, and line 123
CG_SeverityChart ==
    /\ prog = "create_graphs" /\ pc = "severity_chart"
    /\ charts' = charts \cup
         {Chart("vulnerability_severity_comparison.png",
                [i \in DOMAIN ChartOrder |->
                    CounterGet(baseline_vulnerability_data, JStr(ChartOrder[i]))],
                [i \in DOMAIN ChartOrder |->
                    CounterGet(hardened_vulnerability_data, JStr(ChartOrder[i]))])}
    /\ stdout' = Emit(Emit(stdout, "saved"), "all_done")
    /\ pc' = "exit"
    /\ UNCHANGED <<prog, argv, fs, data, severity_counts, total_vulnerabilities,
                   baseline_vulnerability_data, hardened_vulnerability_data,
                   exc, row, traceback, exitcode>>

Next ==
    \/ PR_CheckArgs
    \/ PR_Load
    \/ PR_Aggregate
    \/ PR_PrintHeader
    \/ PR_PrintRow
    \/ PR_PrintTotal
    \/ PR_Except
    \/ CG_Main
    \/ CG_ParseBaseline
    \/ CG_ParseHardened
    \/ CG_ImageSizeChart
    \/ CG_TotalChart
    \/ CG_SeverityChart

Spec == Init /\ [][Next]_vars

(***************************************************************************)
(* What a report contains, read off the decoded value without running the  *)
(* aggregation loops.                                                      *)
(***************************************************************************)
RECURSIVE SumSeq(_)
SumSeq(q) == IF q = <<>> THEN 0 ELSE Head(q) + SumSeq(Tail(q))

HasField(o, k) == o.t = "obj" /\ \E i \in DOMAIN o.kv : o.kv[i][1] = k
FieldOf(o, k) == o.kv[CHOOSE i \in DOMAIN o.kv : o.kv[i][1] = k][2]
HasListField(o, k) == HasField(o, k) /\ FieldOf(o, k).t = "list"

DocsOf(report) == IF report.t = "list" THEN report.l ELSE <<report>>
SectionsOf(doc) ==
    IF HasListField(doc, "Results") THEN FieldOf(doc, "Results").l ELSE <<>>
FindingsOf(sec) ==
    IF HasListField(sec, "Vulnerabilities")
    THEN FieldOf(sec, "Vulnerabilities").l ELSE <<>>

\* the number of Findings of the report that satisfy P
CountFindings(P(_), report) ==
    LET inSection(sec) ==
            Cardinality({k \in DOMAIN FindingsOf(sec) : P(FindingsOf(sec)[k])})
        inDoc(doc) ==
            SumSeq([j \in DOMAIN SectionsOf(doc) |-> inSection(SectionsOf(doc)[j])])
    IN SumSeq([i \in DOMAIN DocsOf(report) |-> inDoc(DocsOf(report)[i])])

SeverityIs(f, L) == HasField(f, "Severity") /\ FieldOf(f, "Severity") = JStr(L)
SeverityAbsent(f) == f.t = "obj" /\ ~HasField(f, "Severity")
SeverityNull(f) == HasField(f, "Severity") /\ FieldOf(f, "Severity") = JNull

NumWithSeverity(report, L) == CountFindings(LAMBDA f : SeverityIs(f, L), report)
NumSeverityAbsent(report) == CountFindings(SeverityAbsent, report)
NumSeverityNull(report) == CountFindings(SeverityNull, report)

\* the severity strings of the explored reports and of the table
Labels == {"CRITICAL", "HIGH", "MEDIUM", "LOW", "UNKNOWN", "high"}

\* parse_results.py has left its aggregation loop without an exception
PR_Completed ==
    /\ prog = "parse_results"
    /\ pc \in {"header", "rows", "exit"}
    /\ Len(argv) >= 2
    /\ exc = "none"

\* create_graphs.py : the first call of parse_trivy_json has returned
CG_BaselineReturned ==
    /\ prog = "create_graphs"
    /\ pc \in {"parse_hardened", "image_size_chart", "total_chart",
               "severity_chart"}

BaselineReport == fs[BASELINE_JSON_FILE]

(***************************************************************************)
(* C1 : when the aggregation of parse_results.py completes, the sum of all *)
(* counts in severity_counts equals total_vulnerabilities.                 *)
(***************************************************************************)
C1_SumEqualsTotal ==
    PR_Completed => SumValues(severity_counts) = total_vulnerabilities

C1_Witness ==
    /\ PR_Completed
    /\ pc = "exit"
    /\ total_vulnerabilities >= 2
    /\ Cardinality(DOMAIN severity_counts) >= 2

(***************************************************************************)
(* C2 as stated : for every severity string L the tally entry for L equals *)
(* exactly the number of Findings whose Severity field is the string L,    *)
(* in the tally of parse_results.py and in the tally parse_trivy_json      *)
(* builds from a document.                                                 *)
(***************************************************************************)
C2_Original ==
    /\ PR_Completed =>
         \A L \in Labels :
            CounterGet(severity_counts, JStr(L)) = NumWithSeverity(data, L)
    /\ (CG_BaselineReturned /\ BaselineReport.t = "obj") =>
         \A L \in Labels :
            CounterGet(baseline_vulnerability_data, JStr(L))
               = NumWithSeverity(BaselineReport, L)

(***************************************************************************)
(* C2 as amended : the tally entry for L equals the number of Findings     *)
(* whose Severity is the string L verbatim plus, for L = UNKNOWN only, the *)
(* number of Findings that have no Severity field; this is the tally of    *)
(* parse_results.py for both report forms and the tally of                 *)
(* parse_trivy_json for a single-object report.                            *)
(***************************************************************************)
VerbatimCount(report, L) ==
    NumWithSeverity(report, L)
       + (IF L = "UNKNOWN" THEN NumSeverityAbsent(report) ELSE 0)

C2_VerbatimCounts ==
    /\ PR_Completed =>
         \A L \in Labels :
            CounterGet(severity_counts, JStr(L)) = VerbatimCount(data, L)
    /\ (CG_BaselineReturned /\ BaselineReport.t = "obj") =>
         \A L \in Labels :
            CounterGet(baseline_vulnerability_data, JStr(L))
               = VerbatimCount(BaselineReport, L)

C2_Witness ==
    /\ PR_Completed
    /\ pc = "exit"
    /\ CounterGet(severity_counts, JStr("HIGH")) = 1
    /\ CounterGet(severity_counts, JStr("high")) = 1
    /\ CounterGet(severity_counts, JStr("UNKNOWN")) = 0

(***************************************************************************)
(* C3 as stated : every Finding whose Severity is absent or null is        *)
(* counted under UNKNOWN and under no other entry.                         *)
(***************************************************************************)
C3_AbsentOrNullIsUnknown ==
    PR_Completed =>
       /\ CounterGet(severity_counts, JStr("UNKNOWN"))
             = NumWithSeverity(data, "UNKNOWN") + NumSeverityAbsent(data)
                  + NumSeverityNull(data)
       /\ JNull \notin DOMAIN severity_counts

(***************************************************************************)
(* C4 : parse_results.py aggregates a sequence of documents into one       *)
(* tally: every count is the sum of the counts of the documents aggregated *)
(* alone, the total is the sum of their totals, and a single-object report *)
(* gives the result of the one-element sequence that contains it.          *)
(***************************************************************************)
AloneCount(report, key) ==
    SumSeq([i \in DOMAIN report.l |->
               CounterGet(Aggregate(report.l[i]).severity_counts, key)])

AloneTotal(report) ==
    SumSeq([i \in DOMAIN report.l |->
               Aggregate(report.l[i]).total_vulnerabilities])

AloneKeys(report) ==
    UNION {DOMAIN Aggregate(report.l[i]).severity_counts : i \in DOMAIN report.l}

IsDocumentSequence(report) ==
    report.t = "list" /\ \A i \in DOMAIN report.l : report.l[i].t = "obj"

C4_SequenceIsSumOfDocuments ==
    /\ (PR_Completed /\ IsDocumentSequence(data)) =>
          /\ \A key \in DOMAIN severity_counts \cup AloneKeys(data) :
                CounterGet(severity_counts, key) = AloneCount(data, key)
          /\ total_vulnerabilities = AloneTotal(data)
    /\ (PR_Completed /\ data.t = "obj") =>
          /\ severity_counts = Aggregate(JList(<<data>>)).severity_counts
          /\ total_vulnerabilities
                = Aggregate(JList(<<data>>)).total_vulnerabilities

C4_Witness ==
    /\ PR_Completed
    /\ pc = "exit"
    /\ IsDocumentSequence(data)
    /\ Len(data.l) = 2
    /\ \A i \in DOMAIN data.l : Aggregate(data.l[i]).total_vulnerabilities = 1
    /\ total_vulnerabilities = 2

(***************************************************************************)
(* C5 : a document whose Results is absent, null, not a list or empty, and *)
(* a section whose Vulnerabilities is absent or null, contribute nothing:  *)
(* the outcome is that of the report without them, and a report made only  *)
(* of such documents yields total 0 and a tally with no entry.             *)
(***************************************************************************)
EmptySection(sec) ==
    sec.t = "obj" /\ (HasField(sec, "Vulnerabilities")
                         => FieldOf(sec, "Vulnerabilities") = JNull)

EmptyDoc(doc) ==
    doc.t = "obj" /\ (HasListField(doc, "Results")
                         => FieldOf(doc, "Results").l = <<>>)

WithoutEmptySections(doc) ==
    IF HasListField(doc, "Results")
    THEN Doc(JList(SelectSeq(FieldOf(doc, "Results").l,
                             LAMBDA sec : ~EmptySection(sec))))
    ELSE doc

\* the report without its empty sections and without its empty documents
WithoutEmpty(report) ==
    JList(SelectSeq([i \in DOMAIN DocsOf(report) |->
                        WithoutEmptySections(DocsOf(report)[i])],
                    LAMBDA doc : ~EmptyDoc(doc)))

\* the same for parse_trivy_json, which reads one document
WithoutEmptyDoc(report) ==
    IF report.t # "obj" THEN report
    ELSE IF EmptyDoc(WithoutEmptySections(report)) THEN JObj(<<>>)
    ELSE WithoutEmptySections(report)

PR_Aggregated == prog = "parse_results" /\ pc \in {"header", "rows", "except"}
                    /\ exc \notin {"FileNotFoundError", "JSONDecodeError"}

C5_EmptyContributesNothing ==
    /\ PR_Aggregated =>
          /\ severity_counts = Aggregate(WithoutEmpty(data)).severity_counts
          /\ total_vulnerabilities
                = Aggregate(WithoutEmpty(data)).total_vulnerabilities
          /\ exc = Aggregate(WithoutEmpty(data)).exc
          /\ (\A i \in DOMAIN DocsOf(data) : EmptyDoc(DocsOf(data)[i])) =>
                /\ total_vulnerabilities = 0
                /\ DOMAIN severity_counts = {}
                /\ exc = "none"
    /\ CG_BaselineReturned =>
          /\ baseline_vulnerability_data
                = TrivyCounts(WithoutEmptyDoc(BaselineReport)).severity_counts
          /\ EmptyDoc(BaselineReport) => DOMAIN baseline_vulnerability_data = {}

C5_Witness ==
    /\ PR_Completed
    /\ pc = "exit"
    /\ Len(DocsOf(data)) = 2
    /\ EmptyDoc(DocsOf(data)[1])
    /\ ~EmptyDoc(DocsOf(data)[2])
    /\ total_vulnerabilities = 1

(***************************************************************************)
(* The three error kinds, read off the command line and the file system.   *)
(***************************************************************************)
MissingArgument == prog = "parse_results" /\ Len(argv) < 2

LoadFails(filename) ==
    filename \notin DOMAIN fs \/ fs[filename] = InvalidText

PR_LoadFails ==
    prog = "parse_results" /\ Len(argv) >= 2 /\ LoadFails(argv[2])

CG_LoadFails ==
    /\ prog = "create_graphs"
    /\ LoadFails(BASELINE_JSON_FILE) \/ LoadFails(HARDENED_JSON_FILE)

ErrorLines ==
    {"missing_argument", "file_not_found", "decode_error", "unexpected_error"}

NumLines(kinds) == Cardinality({i \in DOMAIN stdout : stdout[i].line \in kinds})

(***************************************************************************)
(* C6 as stated : a missing argument, a missing file and invalid JSON each *)
(* end the process with a message and a non-zero exit status, in           *)
(* parse_results.py and in create_graphs.py.                               *)
(***************************************************************************)
C6_ErrorsExitNonZero ==
    (pc = "exit" /\ (MissingArgument \/ PR_LoadFails \/ CG_LoadFails)) =>
       /\ exitcode # 0
       /\ traceback \/ NumLines(ErrorLines) = 1

(***************************************************************************)
(* C7 : no partial output on failure.  A finished run of parse_results.py  *)
(* has printed the whole table or no line of it, and none after a failure; *)
(* create_graphs.py writes no chart in a run in which loading or decoding  *)
(* one of the two report files fails.                                      *)
(***************************************************************************)
TableLines == {"header", "row", "separator", "total"}

FullTable ==
    \E h \in DOMAIN stdout :
       /\ h + 7 \in DOMAIN stdout
       /\ stdout[h].line = "header"
       /\ \A r \in DOMAIN TableOrder :
             /\ stdout[h + r].line = "row"
             /\ stdout[h + r].severity = TableOrder[r]
       /\ stdout[h + 6].line = "separator"
       /\ stdout[h + 7].line = "total"
       /\ NumLines(TableLines) = 8

C7_NoPartialOutput ==
    /\ (prog = "parse_results" /\ pc = "exit") =>
          /\ NumLines(TableLines) = 0 \/ FullTable
          /\ (exitcode # 0 \/ exc # "none") => NumLines(TableLines) = 0
    /\ CG_LoadFails => charts = {}

C7_Witness ==
    /\ prog = "create_graphs"
    /\ pc = "exit"
    /\ ~LoadFails(BASELINE_JSON_FILE)
    /\ LoadFails(HARDENED_JSON_FILE)
    /\ DOMAIN baseline_vulnerability_data # {}
    /\ charts = {}

(***************************************************************************)
(* C8 as stated : a failure of the traversal other than file-not-found and *)
(* JSON-decode is caught at the top level and reported as one generic      *)
(* line instead of propagating, in both entry points.                      *)
(***************************************************************************)
C8_TraversalFailureIsCaught ==
    (pc = "exit" /\ exc \in {"TypeError", "AttributeError"}) =>
       /\ ~traceback
       /\ stdout # <<>>
       /\ stdout[Len(stdout)].line = "unexpected_error"

(***************************************************************************)
(* C9 as stated : the aggregator has no failure path, the traversal of any *)
(* decoded JSON value completes without raising.                           *)
(***************************************************************************)
C9_NeverRaises == exc \notin {"TypeError", "AttributeError"}

(***************************************************************************)
(* C9 as amended : the traversal completes without raising for every       *)
(* report whose documents and ResultSections are objects and whose         *)
(* Vulnerabilities are absent, null or lists of Finding objects with an    *)
(* absent, null or string Severity; there a missing, null or non-list      *)
(* Results and a missing or null Vulnerabilities contribute nothing.       *)
(***************************************************************************)
WellFormedFinding(f) ==
    f.t = "obj" /\ (HasField(f, "Severity")
                       => FieldOf(f, "Severity").t \in {"str", "null"})

WellFormedSection(sec) ==
    /\ sec.t = "obj"
    /\ HasField(sec, "Vulnerabilities") =>
          \/ FieldOf(sec, "Vulnerabilities") = JNull
          \/ /\ FieldOf(sec, "Vulnerabilities").t = "list"
             /\ \A k \in DOMAIN FindingsOf(sec) :
                   WellFormedFinding(FindingsOf(sec)[k])

WellFormedDoc(doc) ==
    /\ doc.t = "obj"
    /\ \A j \in DOMAIN SectionsOf(doc) : WellFormedSection(SectionsOf(doc)[j])

WellFormed(report) ==
    /\ report.t \in {"obj", "list"}
    /\ \A i \in DOMAIN DocsOf(report) : WellFormedDoc(DocsOf(report)[i])

C9_WellFormedNeverRaises ==
    /\ (prog = "parse_results" /\ pc \in {"header", "rows", "except", "exit"}
          /\ ~MissingArgument /\ ~PR_LoadFails /\ WellFormed(data)) =>
          /\ exc = "none"
          /\ pc # "except"
    /\ (prog = "create_graphs" /\ pc # "start" /\ pc # "parse_baseline"
          /\ ~LoadFails(BASELINE_JSON_FILE) /\ WellFormed(BaselineReport)) =>
          \/ pc # "exit" /\ exc = "none"
          \/ pc = "exit" /\ (traceback => /\ ~LoadFails(HARDENED_JSON_FILE)
                                          /\ ~WellFormed(fs[HARDENED_JSON_FILE]))

C9_Witness ==
    /\ PR_Completed
    /\ pc = "exit"
    /\ WellFormed(data)
    /\ \E i \in DOMAIN DocsOf(data) : ~HasField(DocsOf(data)[i], "Results")
    /\ total_vulnerabilities >= 1

(***************************************************************************)
(* C10 as stated : parse_trivy_json returns, for every decoded report in   *)
(* either form, the tally that parse_results.py builds, and the total the  *)
(* chart code derives from it is the total of parse_results.py.            *)
(***************************************************************************)
C10_AggregatorsAgree ==
    (CG_BaselineReturned /\ Aggregate(BaselineReport).exc = "none") =>
       /\ baseline_vulnerability_data = Aggregate(BaselineReport).severity_counts
       /\ SumValues(baseline_vulnerability_data)
             = Aggregate(BaselineReport).total_vulnerabilities

\* on a single-object report the two aggregators do agree
C10_SingleObjectAgree ==
    (CG_BaselineReturned /\ BaselineReport.t = "obj") =>
       /\ Aggregate(BaselineReport).exc = "none"
       /\ baseline_vulnerability_data = Aggregate(BaselineReport).severity_counts
       /\ SumValues(baseline_vulnerability_data)
             = Aggregate(BaselineReport).total_vulnerabilities

====
